---- MODULE Spec2Model ----
(***************************************************************************)
(* RAG ingestion-and-retrieval pipeline of the Streamlit chat application  *)
(* (src/app.py; src/app_semantic_kernel.py is the same program).           *)
(*                                                                         *)
(* One Streamlit script run is triggered by one user interaction and       *)
(* walks top-down through the sidebar block (the ingestion orchestrator)   *)
(* and then the chat block.  Every remote request is one step; the         *)
(* outcome of a request (HTTP status, response body) is chosen by the      *)
(* remote service and is therefore an input of the step.                   *)
(***************************************************************************)
EXTENDS Integers, Sequences, FiniteSets, TLC

(***************************************************************************)
(* Bounds of the model.                                                    *)
(***************************************************************************)
SmallChunks == 2     \* number of chunks of the document content "small"
MaxId       == 56    \* uuid4 keys drawn in one session
MaxMessages == 4     \* length of the chat history
MaxCalls    == 4     \* direct calls of the index functions in one behaviour
MaxFailed   == 2     \* batch positions the service may reject in a 207 reply

(***************************************************************************)
(* Program constants.                                                      *)
(***************************************************************************)
\* The key listing of clear_azure_search_index is a Search Documents GET
\* with search=* and $select but no $top: Azure AI Search then answers
\* with its default page, the first 50 matching documents.
DefaultTop == 50
\* "top": 5 of the search payload.
SearchTop == 5

NoName == "none"
NoFile == [name |-> NoName, content |-> "none"]
NoPrompt == "NoPrompt"
Names == {"a.pdf", "b.pdf"}
\* Contents of an uploaded PDF: no extractable text, a short text, a text
\* of more chunks than one listing page, and a malformed file.
Contents == {"empty", "small", "big", "bad"}
Files == [name : Names, content : Contents]
Queries == {"q1"}
Responses == {"r1"}

VARIABLES
    index,              \* remote index: set of [id, content] records
    nextId,             \* source of uuid.uuid4() values
    rag_enabled,        \* session_state.rag_enabled (absent reads as FALSE)
    last_uploaded_file, \* session_state.last_uploaded_file, NoName if absent
    messages,           \* session_state.messages
    uploaded_file,      \* value of the file_uploader widget
    prompt,             \* value of the chat_input widget in this run
    pc,                 \* position of the script run
    stage,              \* state of the ingestion attempt of this run
    doc_keys,           \* local of clear_azure_search_index
    split_docs,         \* local of the orchestrator
    context,            \* local of the chat block
    calls,              \* calls, replies and returns of this run, in order
    before,             \* session state, index and cleared at run start
    ingested,           \* chunks of the last attempt that reached READY
    cleared,            \* the last index operation was a clear that returned True
    tmp_file            \* temp file of the latest load_and_split_pdf call

vars == <<index, nextId, rag_enabled, last_uploaded_file, messages,
          uploaded_file, prompt, pc, stage, doc_keys, split_docs, context,
          calls, before, ingested, cleared, tmp_file>>

(***************************************************************************)
(* Helpers.                                                                *)
(***************************************************************************)
Min(a, b) == IF a < b THEN a ELSE b

Range(s) == {s[i] : i \in 1..Len(s)}

\* The k smallest elements of a set of integers.
RECURSIVE Smallest(_, _)
Smallest(S, k) ==
    IF k = 0 \/ S = {} THEN {}
    ELSE LET m == CHOOSE x \in S : \A y \in S : x <= y
         IN {m} \cup Smallest(S \ {m}, k - 1)

\* Ascending sequence of a set of integers.
RECURSIVE SortedSeq(_)
SortedSeq(S) ==
    IF S = {} THEN <<>>
    ELSE LET m == CHOOSE x \in S : \A y \in S : x <= y
         IN <<m>> \o SortedSeq(S \ {m})

Keys(idx) == {r.id : r \in idx}

(***************************************************************************)
(* load_and_split_pdf: the chunks of a file, or an error for a malformed   *)
(* file (pypdf raises; the finally block only removes the temp file).      *)
(***************************************************************************)
ChunkCount(content) ==
    CASE content = "empty" -> 0
      [] content = "small" -> SmallChunks
      [] content = "big"   -> DefaultTop + 1
      [] OTHER             -> 0

load_and_split_pdf(file) ==
    IF file.content = "bad"
    THEN [raised |-> TRUE, chunks |-> <<>>]
    ELSE [raised |-> FALSE,
          chunks |-> [i \in 1..ChunkCount(file.content) |->
                         [text |-> file.content, part |-> i]]]

(***************************************************************************)
(* clear_azure_search_index.                                               *)
(***************************************************************************)
\* Body of a successful key listing: results["value"].
ListingValue(idx) == Smallest(Keys(idx), DefaultTop)

\* doc_keys = [doc[KEY] for doc in results.get("value", [])]
DocKeys(value) == value

\* documents_to_delete
documents_to_delete(keys) == {[action |-> "delete", id |-> k] : k \in keys}

\* A delete batch the service accepted.
ApplyDelete(idx, payload) == {r \in idx : r.id \notin {a.id : a \in payload}}

(***************************************************************************)
(* index_documents_to_azure_search.                                        *)
(***************************************************************************)
\* str(uuid.uuid4()) for the i-th chunk of a batch.
uuid4(next, i) == next + i - 1

\* Mutant: an empty list is replaced by one empty chunk.
documents_to_upload_neverEmpty(docs, next) ==
    IF Len(docs) = 0
    THEN <<[action |-> "upload", id |-> uuid4(next, 1),
            content |-> [text |-> "", part |-> 0]]>>
    ELSE [i \in 1..Len(docs) |->
             [action |-> "upload", id |-> uuid4(next, i), content |-> docs[i]]]

\* documents_to_upload
documents_to_upload(docs, next) ==
    [i \in 1..Len(docs) |->
        [action |-> "upload", id |-> uuid4(next, i), content |-> docs[i]]]

\* An upload batch of which the service stored every action but those at
\* the positions in failed.
ApplyUpload(idx, payload, failed) ==
    idx \cup {[id |-> payload[i].id, content |-> payload[i].content] :
                 i \in (1..Len(payload)) \ failed}

\* Replies to an index batch POST: a transport or HTTP error (nothing
\* stored), 200 (every action stored), or 207 Multi-Status (the actions at
\* some positions rejected, the others stored).  raise_for_status raises
\* on 4xx/5xx only, so the code tells 207 from 200 nowhere.  The rejected
\* positions are an input chosen by the service.
FailedChoices(n) == (SUBSET (1..Min(n, MaxFailed))) \ {{}}

(***************************************************************************)
(* search_azure_ai.                                                        *)
(***************************************************************************)
\* A string is a sequence of tokens, a token is a [text, part] record as
\* the chunks are.
SEP == [text |-> "\n\n", part |-> 0]
SEARCH_FAILED == <<[text |-> "search-failed-message", part |-> 0]>>

\* Mutant: the separator is written after every part.
RECURSIVE Join_trailingSeparator(_)
Join_trailingSeparator(parts) ==
    IF Len(parts) = 0 THEN <<>>
    ELSE <<parts[1], SEP>> \o Join_trailingSeparator(Tail(parts))

\* "\n\n".join(list of strings)
RECURSIVE Join(_)
Join(parts) ==
    IF Len(parts) = 0 THEN <<>>
    ELSE IF Len(parts) = 1 THEN <<parts[1]>>
    ELSE <<parts[1], SEP>> \o Join(Tail(parts))

\* Records the service returns for a query: at most top of them.
SearchValue(idx, top) ==
    LET ids == SortedSeq(Smallest(Keys(idx), top))
    IN [i \in 1..Len(ids) |-> CHOOSE r \in idx : r.id = ids[i]]

\* The empty string.
EMPTY == [text |-> "", part |-> 0]

\* Mutant: a record without the content field is left out.
RECURSIVE ContentOf_skipsMissing(_)
ContentOf_skipsMissing(results) ==
    IF Len(results) = 0 THEN <<>>
    ELSE (IF "content" \in DOMAIN results[1] THEN <<results[1].content>>
          ELSE <<>>) \o ContentOf_skipsMissing(Tail(results))

\* [doc.get(CONTENT, "") for doc in results.get("value", [])]
ContentOf(results) ==
    [i \in 1..Len(results) |->
        IF "content" \in DOMAIN results[i] THEN results[i].content
        ELSE EMPTY]

(***************************************************************************)
(* Messages.                                                               *)
(***************************************************************************)
Greeting == [role |-> "assistant", content |-> <<"greeting">>]
Notice(name) == [role |-> "assistant", content |-> <<"learned", name>>]
UserMsg(q) == [role |-> "user", content |-> <<q>>]
AssistantMsg(r) == [role |-> "assistant", content |-> <<r>>]

Call(op, arg) == [op |-> op, arg |-> arg]

\* Reply of the service to a request: "error" stands for a transport
\* error or a 4xx/5xx status, which raise_for_status turns into a
\* RequestException.
Reply(status) == Call("reply", status)

(***************************************************************************)
(* Initial state: the first script run is over (no file, no prompt), the   *)
(* greeting is in the history, the index is empty.                         *)
(***************************************************************************)
Init ==
    /\ index = {}
    /\ nextId = 1
    /\ rag_enabled = FALSE
    /\ last_uploaded_file = NoName
    /\ messages = <<Greeting>>
    /\ uploaded_file = NoFile
    /\ prompt = NoPrompt
    /\ pc = "idle"
    /\ stage = "IDLE"
    /\ doc_keys = {}
    /\ split_docs = <<>>
    /\ context = <<>>
    /\ calls = <<>>
    /\ before = [rag |-> FALSE, last |-> NoName, index |-> {},
                 cleared |-> FALSE, prompt |-> NoPrompt]
    /\ ingested = <<>>
    /\ cleared = FALSE
    /\ tmp_file = "none"

\* A new script run starts at the top of the script; before keeps what the
\* run found: the session state, the index and the chat_input value.
StartRun ==
    /\ pc' = "sidebar"
    /\ stage' = "IDLE"
    /\ doc_keys' = {}
    /\ split_docs' = <<>>
    /\ context' = <<>>
    /\ calls' = <<>>
    /\ before' = [rag |-> rag_enabled, last |-> last_uploaded_file,
                  index |-> index, cleared |-> cleared, prompt |-> prompt']

\* Room left in the history for the n messages a run can append.
Room(n) == Len(messages) + n <= MaxMessages

\* Keys left for the chunks of the file a run finds in the uploader.
KeysLeft(file) == nextId + ChunkCount(file.content) - 1 <= MaxId

(***************************************************************************)
(* User interactions: each one triggers a script run.                      *)
(***************************************************************************)
UploadFile ==
    /\ pc = "idle"
    /\ Room(1)
    /\ \E f \in Files : KeysLeft(f) /\ uploaded_file' = f
    /\ prompt' = NoPrompt
    /\ StartRun
    /\ UNCHANGED <<index, nextId, rag_enabled, last_uploaded_file, messages,
                   ingested, cleared,
                   tmp_file>>

RemoveFile ==
    /\ pc = "idle"
    /\ uploaded_file # NoFile
    /\ uploaded_file' = NoFile
    /\ prompt' = NoPrompt
    /\ StartRun
    /\ UNCHANGED <<index, nextId, rag_enabled, last_uploaded_file, messages,
                   ingested, cleared,
                   tmp_file>>

SubmitPrompt ==
    /\ pc = "idle"
    /\ Room(2)
    /\ KeysLeft(uploaded_file)
    /\ \E q \in Queries : prompt' = q
    /\ StartRun
    /\ UNCHANGED <<index, nextId, rag_enabled, last_uploaded_file, messages,
                   uploaded_file, ingested, cleared,
                   tmp_file>>

(***************************************************************************)
(* Sidebar block: the ingestion orchestrator.                              *)
(***************************************************************************)
\* Mutant: the orchestrator does not compare the name with the last one.
NeedsIngestion_ignoresName(file, last) ==
    file # NoFile

\* if uploaded_file is not None and (no last_uploaded_file or it differs)
NeedsIngestion(file, last) ==
    /\ file # NoFile
    /\ (last = NoName \/ last # file.name)

Sidebar ==
    /\ pc = "sidebar"
    /\ IF NeedsIngestion(uploaded_file, last_uploaded_file)
       THEN /\ pc' = "clear_get"
            /\ stage' = "CLEARING"
       ELSE /\ pc' = "chat"
            /\ stage' = "IDLE"
    /\ UNCHANGED <<index, nextId, rag_enabled, last_uploaded_file, messages,
                   uploaded_file, prompt, doc_keys, split_docs, context,
                   calls, before, ingested, cleared,
                   tmp_file>>

\* Mutant: the orchestrator goes on to the extraction whatever clear returned.
AfterClear_ignoresResult(ret, log) ==
    /\ calls' = Append(log, Call("clear_returns", ret))
    /\ stage' = "EXTRACTING"
    /\ pc' = "extract"
    /\ cleared' = IF ret THEN TRUE ELSE cleared
    /\ UNCHANGED <<rag_enabled, last_uploaded_file>>

\* Mutant: a failed clear switches grounded mode off.
AfterClear_resetsSession(ret, log) ==
    /\ calls' = Append(log, Call("clear_returns", ret))
    /\ IF ret
       THEN /\ stage' = "EXTRACTING"
            /\ pc' = "extract"
            /\ UNCHANGED <<rag_enabled, last_uploaded_file>>
       ELSE /\ stage' = "CLEAR_FAILED"
            /\ pc' = "chat"
            /\ rag_enabled' = FALSE
            /\ last_uploaded_file' = NoName
    /\ cleared' = IF ret THEN TRUE ELSE cleared

\* Mutant: the branch for a failed clear is missing, the attempt is never
\* marked as ended.
AfterClear_leavesClearing(ret, log) ==
    /\ calls' = Append(log, Call("clear_returns", ret))
    /\ IF ret
       THEN /\ stage' = "EXTRACTING"
            /\ pc' = "extract"
       ELSE /\ stage' = "CLEARING"
            /\ pc' = "chat"
    /\ cleared' = IF ret THEN TRUE ELSE cleared
    /\ UNCHANGED <<rag_enabled, last_uploaded_file>>

\* What the orchestrator does when clear_azure_search_index returned ret;
\* log is the record of the calls up to the return.
AfterClear(ret, log) ==
    /\ calls' = Append(log, Call("clear_returns", ret))
    /\ IF ret
       THEN /\ stage' = "EXTRACTING"
            /\ pc' = "extract"
       ELSE /\ stage' = "CLEAR_FAILED"
            /\ pc' = "chat"
    /\ cleared' = IF ret THEN TRUE ELSE cleared
    /\ UNCHANGED <<rag_enabled, last_uploaded_file>>

\* clear_azure_search_index, requests.get of the key listing.
ClearGet ==
    /\ pc = "clear_get"
    /\ LET log == Append(calls, Call("GET_keys", {}))
       IN \E ok \in BOOLEAN :
            IF ~ok
            THEN \* RequestException: return False
                 /\ doc_keys' = doc_keys
                 /\ AfterClear(FALSE, Append(log, Reply("error")))
            ELSE /\ doc_keys' = DocKeys(ListingValue(index))
                 /\ IF doc_keys' = {}
                    THEN \* return True without a delete
                         AfterClear(TRUE, Append(log, Reply("200")))
                    ELSE /\ calls' = Append(log, Reply("200"))
                         /\ pc' = "clear_post"
                         /\ UNCHANGED <<stage, cleared, rag_enabled,
                                        last_uploaded_file>>
    /\ UNCHANGED <<index, nextId, messages, uploaded_file, prompt,
                   split_docs, context, before, ingested,
                   tmp_file>>

\* clear_azure_search_index, requests.post of the delete batch.
ClearPost ==
    /\ pc = "clear_post"
    /\ LET payload == documents_to_delete(doc_keys)
           log == Append(calls, Call("POST_delete", {a.id : a \in payload}))
       IN \E ok \in BOOLEAN :
            IF ok
            THEN /\ index' = ApplyDelete(index, payload)
                 /\ AfterClear(TRUE, Append(log, Reply("200")))
            ELSE \* RequestException: return False
                 /\ index' = index
                 /\ AfterClear(FALSE, Append(log, Reply("error")))
    /\ UNCHANGED <<nextId, messages, uploaded_file, prompt, doc_keys,
                   split_docs, context, before, ingested,
                   tmp_file>>

\* Exit points of load_and_split_pdf: the write into the temp file raises
\* (the with block, before the try), the PDF cannot be opened (inside the
\* try), or the function returns.
ExitPoints(file) ==
    {"write"} \cup (IF load_and_split_pdf(file).raised THEN {"open"}
                    ELSE {"return"})

\* State of the temp file (created with delete=False) after the function
\* left at point: only the try block has the finally with os.remove.
TempFileAfter(point) == IF point = "write" THEN "exists" ELSE "none"

\* split_docs = load_and_split_pdf(uploaded_file); an error is not caught
\* and ends the script run.
Extract ==
    /\ pc = "extract"
    /\ \E point \in ExitPoints(uploaded_file) :
         LET r == load_and_split_pdf(uploaded_file)
             log == Append(calls,
                           Call("load_and_split_pdf", uploaded_file.name))
         IN /\ tmp_file' = TempFileAfter(point)
            /\ IF point # "return"
               THEN /\ calls' = Append(log, Call("split_raises", point))
                    /\ split_docs' = split_docs
                    /\ stage' = "EXTRACT_ERROR"
                    /\ pc' = "idle"
                    /\ prompt' = NoPrompt
               ELSE /\ calls' = Append(log,
                                       Call("split_returns", Len(r.chunks)))
                    /\ split_docs' = r.chunks
                    /\ stage' = "UPLOADING"
                    /\ pc' = "upload"
                    /\ prompt' = prompt
    /\ UNCHANGED <<index, nextId, rag_enabled, last_uploaded_file, messages,
                   uploaded_file, doc_keys, context, before, ingested,
                   cleared>>

\* Mutant: a failed upload switches grounded mode off.
AfterUpload_resetsSession(ret, log) ==
    /\ calls' = Append(log, Call("upload_returns", ret))
    /\ IF ret
       THEN /\ rag_enabled' = TRUE
            /\ last_uploaded_file' = uploaded_file.name
            /\ messages' = Append(messages, Notice(uploaded_file.name))
            /\ ingested' = split_docs
            /\ stage' = "READY"
            /\ pc' = "rerun"
            /\ prompt' = NoPrompt
       ELSE /\ stage' = "UPLOAD_FAILED"
            /\ pc' = "chat"
            /\ rag_enabled' = FALSE
            /\ UNCHANGED <<last_uploaded_file, messages, ingested, prompt>>

\* Mutant: the name of the file is recorded before the result of the
\* upload is looked at.
AfterUpload_recordsNameFirst(ret, log) ==
    /\ calls' = Append(log, Call("upload_returns", ret))
    /\ last_uploaded_file' = uploaded_file.name
    /\ IF ret
       THEN /\ rag_enabled' = TRUE
            /\ messages' = Append(messages, Notice(uploaded_file.name))
            /\ ingested' = split_docs
            /\ stage' = "READY"
            /\ pc' = "rerun"
            /\ prompt' = NoPrompt
       ELSE /\ stage' = "UPLOAD_FAILED"
            /\ pc' = "chat"
            /\ UNCHANGED <<rag_enabled, messages, ingested, prompt>>

\* Mutant: the run goes on to the chat block after the success notice.
AfterUpload_noRerun(ret, log) ==
    /\ calls' = Append(log, Call("upload_returns", ret))
    /\ IF ret
       THEN /\ rag_enabled' = TRUE
            /\ last_uploaded_file' = uploaded_file.name
            /\ messages' = Append(messages, Notice(uploaded_file.name))
            /\ ingested' = split_docs
            /\ stage' = "READY"
            /\ pc' = "chat"
            /\ prompt' = prompt
       ELSE /\ stage' = "UPLOAD_FAILED"
            /\ pc' = "chat"
            /\ UNCHANGED <<rag_enabled, last_uploaded_file, messages,
                           ingested, prompt>>

\* What the orchestrator does when index_documents_to_azure_search
\* returned ret.
AfterUpload(ret, log) ==
    /\ calls' = Append(log, Call("upload_returns", ret))
    /\ IF ret
       THEN /\ rag_enabled' = TRUE
            /\ last_uploaded_file' = uploaded_file.name
            /\ messages' = Append(messages, Notice(uploaded_file.name))
            /\ ingested' = split_docs
            /\ stage' = "READY"
            \* streamlit.rerun(): the run stops, the next one starts
            \* without the chat_input value
            /\ pc' = "rerun"
            /\ prompt' = NoPrompt
       ELSE /\ stage' = "UPLOAD_FAILED"
            /\ pc' = "chat"
            /\ UNCHANGED <<rag_enabled, last_uploaded_file, messages,
                           ingested, prompt>>

\* index_documents_to_azure_search, requests.post of the upload batch.
Upload ==
    /\ pc = "upload"
    /\ nextId + Len(split_docs) - 1 <= MaxId
    /\ LET payload == documents_to_upload(split_docs, nextId)
           log == Append(calls,
                         Call("POST_upload", {a.id : a \in Range(payload)}))
       IN /\ nextId' = nextId + Len(payload)
          /\ \/ \* transport or HTTP error: return False
                /\ index' = index
                /\ AfterUpload(FALSE, Append(log, Reply("error")))
             \/ \* 200: every action stored
                /\ index' = ApplyUpload(index, payload, {})
                /\ AfterUpload(TRUE, Append(log, Reply("200")))
             \/ \* 207: the actions at some positions were rejected
                \E failed \in FailedChoices(Len(payload)) :
                    /\ index' = ApplyUpload(index, payload, failed)
                    /\ AfterUpload(TRUE, Append(log, Reply("207")))
    /\ cleared' = FALSE
    /\ UNCHANGED <<uploaded_file, doc_keys, split_docs, context, before,
                   tmp_file>>

\* The run started by streamlit.rerun().
Rerun ==
    /\ pc = "rerun"
    /\ UNCHANGED <<index, nextId, rag_enabled, last_uploaded_file, messages,
                   uploaded_file, prompt, ingested, cleared,
                   tmp_file>>
    /\ StartRun

(***************************************************************************)
(* Chat block.                                                             *)
(***************************************************************************)
\* Mutant: the query is not written into the history.
Chat_noUserMessage ==
    /\ pc = "chat"
    /\ messages' = messages
    /\ pc' = IF prompt = NoPrompt THEN "idle"
             ELSE IF rag_enabled THEN "search" ELSE "generate"
    /\ UNCHANGED <<index, nextId, rag_enabled, last_uploaded_file,
                   uploaded_file, prompt, stage, doc_keys, split_docs,
                   context, calls, before, ingested, cleared, tmp_file>>

\* if prompt := streamlit.chat_input(...): the user message is appended
\* first.
Chat ==
    /\ pc = "chat"
    /\ IF prompt = NoPrompt
       THEN /\ pc' = "idle"
            /\ messages' = messages
       ELSE /\ messages' = Append(messages, UserMsg(prompt))
            /\ pc' = IF rag_enabled THEN "search" ELSE "generate"
    /\ UNCHANGED <<index, nextId, rag_enabled, last_uploaded_file,
                   uploaded_file, prompt, stage, doc_keys, split_docs,
                   context, calls, before, ingested, cleared,
                   tmp_file>>

\* Mutant: a failed search yields the empty string.
search_azure_ai_emptyOnFailure(ok, idx) ==
    IF ok THEN Join(ContentOf(SearchValue(idx, SearchTop)))
    ELSE <<>>

\* Mutant: the search payload carries no "top"; the service answers with
\* its default page.
search_azure_ai_noTop(ok, idx) ==
    IF ok THEN Join(ContentOf(SearchValue(idx, DefaultTop)))
    ELSE SEARCH_FAILED

\* search_azure_ai(prompt): the joined contents, or the failure message
\* when the request raised a RequestException.
search_azure_ai(ok, idx) ==
    IF ok THEN Join(ContentOf(SearchValue(idx, SearchTop)))
    ELSE SEARCH_FAILED

\* Mutant: a failed search is sent a second time.
Search_retriesOnce ==
    /\ pc = "search"
    /\ \E ok \in BOOLEAN :
         /\ context' = search_azure_ai(ok, index)
         /\ calls' = calls \o
               (IF ok THEN <<>>
                ELSE <<Call("POST_search", prompt), Reply("error")>>) \o
               <<Call("POST_search", prompt),
                 Reply(IF ok THEN "200" ELSE "error"),
                 Call("search_returns", context')>>
    /\ pc' = "generate"
    /\ UNCHANGED <<index, nextId, rag_enabled, last_uploaded_file, messages,
                   uploaded_file, prompt, stage, doc_keys, split_docs,
                   before, ingested, cleared, tmp_file>>

\* Mutant: a failed search ends the handling of the query.
Search_abortsOnFailure ==
    /\ pc = "search"
    /\ \E ok \in BOOLEAN :
         /\ context' = search_azure_ai(ok, index)
         /\ calls' = calls \o <<Call("POST_search", prompt),
                                Reply(IF ok THEN "200" ELSE "error"),
                                Call("search_returns", context')>>
         /\ pc' = IF ok THEN "generate" ELSE "idle"
         /\ prompt' = IF ok THEN prompt ELSE NoPrompt
    /\ UNCHANGED <<index, nextId, rag_enabled, last_uploaded_file, messages,
                   uploaded_file, stage, doc_keys, split_docs,
                   before, ingested, cleared, tmp_file>>

Search ==
    /\ pc = "search"
    /\ \E ok \in BOOLEAN :
         /\ context' = search_azure_ai(ok, index)
         /\ calls' = calls \o <<Call("POST_search", prompt),
                                Reply(IF ok THEN "200" ELSE "error"),
                                Call("search_returns", context')>>
    /\ pc' = "generate"
    /\ UNCHANGED <<index, nextId, rag_enabled, last_uploaded_file, messages,
                   uploaded_file, prompt, stage, doc_keys, split_docs,
                   before, ingested, cleared,
                   tmp_file>>

\* Mutant: the two slots of the template are filled the wrong way round.
Payload_swapsSlots(rag, q, ctx) ==
    IF rag THEN [template |-> "qa_system_prompt", input |-> ctx, context |-> q]
    ELSE [template |-> "none", input |-> q, context |-> <<>>]

\* Payload handed to kernel.invoke_prompt.
Payload(rag, q, ctx) ==
    IF rag THEN [template |-> "qa_system_prompt", input |-> q, context |-> ctx]
    ELSE [template |-> "none", input |-> q, context |-> <<>>]

\* Mutant: a failed generation takes the user message back.
Generate_rollsBack ==
    /\ pc = "generate"
    /\ LET log == Append(calls, Call("invoke_prompt",
                                     Payload(rag_enabled, prompt, context)))
       IN \/ \E r \in Responses :
               /\ messages' = Append(messages, AssistantMsg(r))
               /\ calls' = Append(log, Call("invoke_returns", r))
          \/ /\ messages' = SubSeq(messages, 1, Len(messages) - 1)
             /\ calls' = Append(log, Call("invoke_raises", {}))
    /\ pc' = "idle"
    /\ prompt' = NoPrompt
    /\ UNCHANGED <<index, nextId, rag_enabled, last_uploaded_file,
                   uploaded_file, stage, doc_keys, split_docs, context,
                   before, ingested, cleared, tmp_file>>

Generate ==
    /\ pc = "generate"
    /\ LET log == Append(calls, Call("invoke_prompt",
                                     Payload(rag_enabled, prompt, context)))
       IN \/ \E r \in Responses :
               /\ messages' = Append(messages, AssistantMsg(r))
               /\ calls' = Append(log, Call("invoke_returns", r))
          \/ \* exception: caught and reported, nothing appended
             /\ messages' = messages
             /\ calls' = Append(log, Call("invoke_raises", {}))
    /\ pc' = "idle"
    /\ prompt' = NoPrompt
    /\ UNCHANGED <<index, nextId, rag_enabled, last_uploaded_file,
                   uploaded_file, stage, doc_keys, split_docs, context,
                   before, ingested, cleared,
                   tmp_file>>

Next ==
    \/ UploadFile
    \/ RemoveFile
    \/ SubmitPrompt
    \/ Sidebar
    \/ ClearGet
    \/ ClearPost
    \/ Extract
    \/ Upload
    \/ Rerun
    \/ Chat
    \/ Search
    \/ Generate

Spec == Init /\ [][Next]_vars

\* The steps of the ingestion attempt of a script run.  At most one of
\* them is enabled in a state, and no other step is while it is.
AttemptStep ==
    \/ Sidebar
    \/ ClearGet
    \/ ClearPost
    \/ Extract
    \/ Upload

\* The script run is sequential code: once started it goes on to its next
\* step, and every remote call returns or fails.  The user's interactions
\* carry no fairness.
SpecFair == Spec /\ WF_vars(AttemptStep)

(***************************************************************************)
(* The index functions called directly, in any order, as a caller other    *)
(* than the orchestrator may call them.  calls records each call with its  *)
(* argument, its return value and the index it found.                      *)
(***************************************************************************)
DocLists == {load_and_split_pdf(f).chunks : f \in Files}

Called(fn, docs, ret) ==
    calls' = Append(calls, Call(fn, [docs |-> docs, ret |-> ret,
                                     index0 |-> index]))

\* index_documents_to_azure_search(docs)
CallUpload ==
    /\ Len(calls) < MaxCalls
    /\ \E docs \in DocLists :
         /\ nextId + Len(docs) - 1 <= MaxId
         /\ LET payload == documents_to_upload(docs, nextId)
            IN /\ nextId' = nextId + Len(payload)
               /\ \/ /\ index' = index
                     /\ Called("index_documents_to_azure_search", docs, FALSE)
                  \/ /\ index' = ApplyUpload(index, payload, {})
                     /\ Called("index_documents_to_azure_search", docs, TRUE)
                  \/ \E failed \in FailedChoices(Len(payload)) :
                       /\ index' = ApplyUpload(index, payload, failed)
                       /\ Called("index_documents_to_azure_search", docs, TRUE)
    /\ cleared' = FALSE
    /\ UNCHANGED <<rag_enabled, last_uploaded_file, messages, uploaded_file,
                   prompt, pc, stage, doc_keys, split_docs, context, before,
                   ingested, tmp_file>>

\* clear_azure_search_index()
CallClear ==
    /\ Len(calls) < MaxCalls
    /\ LET keys == DocKeys(ListingValue(index))
       IN \/ \* the key listing fails
             /\ Called("clear_azure_search_index", <<>>, FALSE)
             /\ UNCHANGED <<index, doc_keys, cleared>>
          \/ \* the key listing is answered; no key, or the delete succeeds
             /\ doc_keys' = keys
             /\ index' = IF keys = {} THEN index
                         ELSE ApplyDelete(index, documents_to_delete(keys))
             /\ Called("clear_azure_search_index", <<>>, TRUE)
             /\ cleared' = TRUE
          \/ \* the key listing is answered, the delete fails
             /\ keys # {}
             /\ doc_keys' = keys
             /\ Called("clear_azure_search_index", <<>>, FALSE)
             /\ UNCHANGED <<index, cleared>>
    /\ UNCHANGED <<nextId, rag_enabled, last_uploaded_file, messages,
                   uploaded_file, prompt, pc, stage, split_docs, context,
                   before, ingested, tmp_file>>

NextCalls ==
    \/ CallUpload
    \/ CallClear

SpecCalls == Init /\ [][NextCalls]_vars

(***************************************************************************)
(* search_azure_ai called directly, once, on an index that one call of     *)
(* index_documents_to_azure_search has left.  The service answers with at  *)
(* most top records of the index; which of the records carry the content   *)
(* field is its choice.                                                    *)
(***************************************************************************)
WithoutContent(value, missing) ==
    [i \in 1..Len(value) |->
        IF i \in missing THEN [id |-> value[i].id] ELSE value[i]]

ReplyValues(idx, top) ==
    {WithoutContent(SearchValue(idx, top), missing) :
        missing \in SUBSET (1..Len(SearchValue(idx, top)))}

InitSearch ==
    /\ \E docs \in DocLists :
         \E failed \in {{}} \cup FailedChoices(Len(docs)) :
             /\ index = ApplyUpload({}, documents_to_upload(docs, 1), failed)
             /\ nextId = 1 + Len(docs)
    /\ rag_enabled = FALSE
    /\ last_uploaded_file = NoName
    /\ messages = <<Greeting>>
    /\ uploaded_file = NoFile
    /\ prompt = NoPrompt
    /\ pc = "idle"
    /\ stage = "IDLE"
    /\ doc_keys = {}
    /\ split_docs = <<>>
    /\ context = <<>>
    /\ calls = <<>>
    /\ before = [rag |-> FALSE, last |-> NoName, index |-> {},
                 cleared |-> FALSE, prompt |-> NoPrompt]
    /\ ingested = <<>>
    /\ cleared = FALSE
    /\ tmp_file = "none"

\* search_azure_ai(query)
CallSearch ==
    /\ calls = <<>>
    /\ \E q \in Queries :
         \/ \* RequestException: the failure message
            /\ context' = SEARCH_FAILED
            /\ calls' = <<Call("search_azure_ai",
                               [query |-> q, ok |-> FALSE, value |-> <<>>,
                                ret |-> context'])>>
         \/ \E value \in ReplyValues(index, SearchTop) :
              /\ context' = Join(ContentOf(value))
              /\ calls' = <<Call("search_azure_ai",
                                 [query |-> q, ok |-> TRUE, value |-> value,
                                  ret |-> context'])>>
    /\ UNCHANGED <<index, nextId, rag_enabled, last_uploaded_file, messages,
                   uploaded_file, prompt, pc, stage, doc_keys, split_docs,
                   before, ingested, cleared, tmp_file>>

NextSearch == CallSearch

SpecSearch == InitSearch /\ [][NextSearch]_vars

(***************************************************************************)
(* Reading the record of a run.                                            *)
(***************************************************************************)
Ops(op) == {i \in 1..Len(calls) : calls[i].op = op}

Is(log, i, op, arg) ==
    /\ i >= 1
    /\ i <= Len(log)
    /\ log[i].op = op
    /\ log[i].arg = arg

Returned(log, op, ret) == \E i \in 1..Len(log) : Is(log, i, op, ret)

AttemptInProgress == stage \in {"CLEARING", "EXTRACTING", "UPLOADING"}

IndexHolds(chunks) ==
    /\ Cardinality(index) = Len(chunks)
    /\ {r.content : r \in index} = Range(chunks)

(***************************************************************************)
(* C1: whenever no ingestion attempt is in progress, the index is empty    *)
(* or holds exactly the chunks of the document of the last attempt that    *)
(* reached READY: no partial batch, no mix of two documents.               *)
(***************************************************************************)
C1_IndexEmptyOrComplete ==
    ~AttemptInProgress => (index = {} \/ IndexHolds(ingested))

(***************************************************************************)
(* C2: in one attempt the stages run in the order clear, extraction,       *)
(* upload, each at most once; the extraction starts only right after       *)
(* clear returned True and the upload request is issued only right after   *)
(* the extraction returned its chunks.                                     *)
(***************************************************************************)
C2_StagesInOrder ==
    /\ \A op \in {"GET_keys", "POST_delete", "clear_returns",
                  "load_and_split_pdf", "POST_upload"} :
           Cardinality(Ops(op)) <= 1
    /\ \A i \in Ops("GET_keys") : i = 1
    /\ \A i \in Ops("load_and_split_pdf") :
           /\ Is(calls, i - 1, "clear_returns", TRUE)
           /\ Ops("GET_keys") # {}
    /\ \A i \in Ops("POST_upload") :
           /\ Is(calls, i - 1, "split_returns", Cardinality(calls[i].arg))
           /\ Is(calls, i - 2, "load_and_split_pdf", uploaded_file.name)
    /\ stage \in {"EXTRACTING", "UPLOADING", "READY", "UPLOAD_FAILED",
                  "EXTRACT_ERROR"} => Returned(calls, "clear_returns", TRUE)
    /\ stage \in {"UPLOADING", "READY", "UPLOAD_FAILED"} =>
           Ops("load_and_split_pdf") # {}

C2_Witness ==
    /\ stage = "UPLOAD_FAILED"
    /\ Ops("POST_delete") # {}
    /\ Ops("POST_upload") # {}
    /\ Len(split_docs) > 0

(***************************************************************************)
(* C3: when clear returns False the attempt ends in CLEAR_FAILED, neither  *)
(* the extraction nor the upload is performed, and rag_enabled and         *)
(* last_uploaded_file keep the values they had before the attempt.         *)
(***************************************************************************)
C3_ClearFailed ==
    /\ Returned(calls, "clear_returns", FALSE) => stage = "CLEAR_FAILED"
    /\ stage = "CLEAR_FAILED" =>
           /\ Returned(calls, "clear_returns", FALSE)
           /\ Ops("load_and_split_pdf") = {}
           /\ Ops("POST_upload") = {}
           /\ rag_enabled = before.rag
           /\ last_uploaded_file = before.last

C3_Witness ==
    /\ stage = "CLEAR_FAILED"
    /\ pc = "idle"
    /\ Ops("POST_delete") # {}
    /\ before.rag

(***************************************************************************)
(* C4: when the upload returns False the attempt ends in UPLOAD_FAILED     *)
(* and rag_enabled and last_uploaded_file are unchanged: enabled with the  *)
(* old document's name if they were, not enabled if they were not.         *)
(***************************************************************************)
C4_UploadFailed ==
    /\ Returned(calls, "upload_returns", FALSE) => stage = "UPLOAD_FAILED"
    /\ stage = "UPLOAD_FAILED" =>
           /\ Returned(calls, "upload_returns", FALSE)
           /\ rag_enabled = before.rag
           /\ last_uploaded_file = before.last
           /\ last_uploaded_file # uploaded_file.name

C4_Witness ==
    /\ stage = "UPLOAD_FAILED"
    /\ pc = "idle"
    /\ rag_enabled
    /\ last_uploaded_file \in Names
    /\ index = {}

(***************************************************************************)
(* C5: the step in which an attempt reaches READY, after clear and upload  *)
(* both returned True, sets rag_enabled to True and last_uploaded_file to  *)
(* the name of the new document; every other step leaves both unchanged.   *)
(***************************************************************************)
ReachesReady == pc = "upload" /\ stage' = "READY"

C5_SessionWrittenOnReady ==
    [][/\ (pc = "upload" /\ Returned(calls', "upload_returns", TRUE))
             => ReachesReady
       /\ IF ReachesReady
          THEN /\ rag_enabled' = TRUE
               /\ last_uploaded_file' = uploaded_file.name
               /\ Returned(calls', "clear_returns", TRUE)
               /\ Returned(calls', "upload_returns", TRUE)
          ELSE UNCHANGED <<rag_enabled, last_uploaded_file>>]_vars

C5_Witness ==
    /\ stage = "READY"
    /\ rag_enabled
    /\ last_uploaded_file = uploaded_file.name
    /\ before.rag
    /\ before.last # last_uploaded_file

(***************************************************************************)
(* C6: a run whose uploaded file has the name held by last_uploaded_file   *)
(* starts no attempt: it issues no key listing, no delete and no upload    *)
(* and leaves the index and the session state unchanged, whatever the      *)
(* content of the file.                                                    *)
(***************************************************************************)
SameNameRun == uploaded_file # NoFile /\ uploaded_file.name = before.last

C6_SameNameNoAttempt ==
    SameNameRun =>
        /\ stage = "IDLE"
        /\ \A op \in {"GET_keys", "POST_delete", "load_and_split_pdf",
                      "POST_upload"} : Ops(op) = {}
        /\ index = before.index
        /\ rag_enabled = before.rag
        /\ last_uploaded_file = before.last

C6_Witness ==
    /\ SameNameRun
    /\ pc = "chat"
    /\ index # {}
    /\ Len(ingested) # Len(load_and_split_pdf(uploaded_file).chunks)

(***************************************************************************)
(* C7: clear_azure_search_index is idempotent.  When the key listing is    *)
(* answered for an empty index it returns True without a delete request;   *)
(* a call that follows a call that returned True, with no upload in        *)
(* between, issues only the key listing, leaves the index unchanged and    *)
(* returns True.                                                           *)
(***************************************************************************)
ListingAnswered == Ops("GET_keys") = {1} /\ Is(calls, 2, "reply", "200")

ReturnsTrueWithoutDelete ==
    /\ Is(calls, 3, "clear_returns", TRUE)
    /\ Ops("POST_delete") = {}
    /\ stage = "EXTRACTING" => index = before.index

C7_ClearIdempotent ==
    /\ (ListingAnswered /\ before.index = {}) => ReturnsTrueWithoutDelete
    /\ (ListingAnswered /\ before.cleared) => ReturnsTrueWithoutDelete

(***************************************************************************)
(* C8: on a non-empty index clear_azure_search_index issues exactly one    *)
(* bulk delete request, which names every record key of the index, and     *)
(* whenever it returns True the index holds no records.                    *)
(***************************************************************************)
C8_ClearDeletesAll ==
    /\ Cardinality(Ops("POST_delete")) <= 1
    /\ (ListingAnswered /\ before.index # {}) =>
           (pc = "clear_post" \/ Ops("POST_delete") # {})
    /\ \A i \in Ops("POST_delete") : calls[i].arg = Keys(before.index)
    /\ (pc = "extract" /\ Returned(calls, "clear_returns", TRUE)) =>
           index = {}

(***************************************************************************)
(* C9: a failed remote request never escapes as an exception: after a      *)
(* failed key listing or delete clear_azure_search_index returns False,    *)
(* after a failed upload index_documents_to_azure_search returns False,    *)
(* after a failed search search_azure_ai returns the failure message.      *)
(***************************************************************************)
FailedReply(i) == Is(calls, i, "reply", "error")

C9_FailuresConverted ==
    \A i \in 1..Len(calls) :
        FailedReply(i) =>
            /\ i > 1
            /\ calls[i-1].op \in {"GET_keys", "POST_delete", "POST_upload",
                                  "POST_search"}
            /\ calls[i-1].op \in {"GET_keys", "POST_delete"} =>
                   Is(calls, i + 1, "clear_returns", FALSE)
            /\ calls[i-1].op = "POST_upload" =>
                   Is(calls, i + 1, "upload_returns", FALSE)
            /\ calls[i-1].op = "POST_search" =>
                   Is(calls, i + 1, "search_returns", SEARCH_FAILED)

C9_Witness ==
    /\ pc = "idle"
    /\ \E i \in Ops("POST_upload") : FailedReply(i + 1)
    /\ \E i \in Ops("POST_search") : FailedReply(i + 1)
    /\ Ops("POST_delete") # {}

(***************************************************************************)
(* C10: index_documents_to_azure_search called with a non-empty list       *)
(* issues one upload request for the whole batch and, when it returns      *)
(* True, has added exactly one record per chunk, each under a fresh key    *)
(* distinct from the other keys of the batch and from the keys already in  *)
(* the index.                                                              *)
(***************************************************************************)
C10_UploadOneRecordPerChunk ==
    [][(pc = "upload" /\ Len(split_docs) > 0) =>
          /\ Cardinality({i \in 1..Len(calls') :
                             calls'[i].op = "POST_upload"}) = 1
          /\ \A i \in 1..Len(calls') :
                 calls'[i].op = "POST_upload" =>
                     /\ Cardinality(calls'[i].arg) = Len(split_docs)
                     /\ calls'[i].arg \cap Keys(index) = {}
          /\ Returned(calls', "upload_returns", TRUE) =>
                 /\ index \subseteq index'
                 /\ Cardinality(Keys(index' \ index)) = Len(split_docs)
                 /\ {r.content : r \in index' \ index} = Range(split_docs)]_vars

(***************************************************************************)
(* C11: index_documents_to_azure_search called with an empty list of       *)
(* chunks does not raise: it returns, adds no record and leaves the index  *)
(* unchanged.                                                              *)
(***************************************************************************)
C11_EmptyUploadNoOp ==
    [][(pc = "upload" /\ Len(split_docs) = 0) =>
          /\ index' = index
          /\ Len(calls') = Len(calls) + 3
          /\ calls'[Len(calls')].op = "upload_returns"
          /\ calls'[Len(calls')].arg \in BOOLEAN]_vars

C11_Witness ==
    /\ stage = "READY"
    /\ split_docs = <<>>
    /\ Returned(calls, "upload_returns", TRUE)
    /\ \E i \in Ops("POST_upload") : calls[i].arg = {}

(***************************************************************************)
(* C12: the upload is all-or-nothing for the caller: when the service      *)
(* rejects an action of the batch index_documents_to_azure_search returns  *)
(* False, without a second request; it returns True only when every chunk  *)
(* of the batch was stored.                                                *)
(***************************************************************************)
C12_PartialBatchReportedFailed ==
    /\ Cardinality(Ops("POST_upload")) <= 1
    /\ \A i \in Ops("POST_upload") :
           Is(calls, i + 1, "reply", "207") =>
               Is(calls, i + 2, "upload_returns", FALSE)

(***************************************************************************)
(* C13: index_documents_to_azure_search is not idempotent: two calls in a  *)
(* row with the same list of chunks that both return True leave two        *)
(* record sets in the index, twice as many records as chunks, under keys   *)
(* that are all distinct.                                                  *)
(***************************************************************************)
SuccessfulUpload(i, docs) ==
    /\ i >= 1
    /\ i <= Len(calls)
    /\ calls[i].op = "index_documents_to_azure_search"
    /\ calls[i].arg.docs = docs
    /\ calls[i].arg.ret = TRUE

C13_UploadTwiceDoubles ==
    \A docs \in DocLists :
        LET n == Len(calls)
        IN (SuccessfulUpload(n - 1, docs) /\ SuccessfulUpload(n, docs)) =>
               LET added == index \ calls[n - 1].arg.index0
               IN /\ Cardinality(added) = 2 * Len(docs)
                  /\ Cardinality(Keys(added)) = 2 * Len(docs)
                  /\ \A c \in Range(docs) :
                         Cardinality({r \in added : r.content = c}) = 2

(***************************************************************************)
(* C14: search_azure_ai returns the failure message when the request       *)
(* fails; when it is answered with N records it returns their N contents   *)
(* in the order of the reply, with exactly one separator between adjacent  *)
(* contents and none before the first or after the last.                   *)
(***************************************************************************)
SearchAnswered(i) ==
    /\ i \in Ops("search_returns")
    /\ Is(calls, i - 1, "reply", "200")

SearchFailed(i) ==
    /\ i \in Ops("search_returns")
    /\ Is(calls, i - 1, "reply", "error")

C14_SearchResultJoined ==
    \A i \in Ops("search_returns") :
        LET ctx == calls[i].arg
            res == SearchValue(index, SearchTop)
            n == Len(res)
        IN /\ SearchFailed(i) => ctx = SEARCH_FAILED
           /\ SearchAnswered(i) =>
                  /\ Len(ctx) = IF n = 0 THEN 0 ELSE 2 * n - 1
                  /\ \A k \in 1..n : ctx[2 * k - 1] = res[k].content
                  /\ \A k \in 1..(n - 1) : ctx[2 * k] = SEP

C14_Witness ==
    \E i \in Ops("search_returns") :
        /\ SearchAnswered(i)
        /\ Len(calls[i].arg) = 2 * SearchTop - 1

(***************************************************************************)
(* C15: a search answered with no record makes search_azure_ai return the  *)
(* empty string, and the value returned for a failed request is never the  *)
(* value returned for no record.                                           *)
(***************************************************************************)
C15_EmptyResultNotFailure ==
    \A i \in Ops("search_returns") :
        /\ (SearchAnswered(i) /\ index = {}) => calls[i].arg = <<>>
        /\ SearchFailed(i) => calls[i].arg # <<>>

C15_Witness ==
    /\ index = {}
    /\ rag_enabled
    /\ \E i \in Ops("search_returns") : SearchAnswered(i)

(***************************************************************************)
(* C16: for a query handled with rag_enabled false no search is issued     *)
(* and the generation receives the query alone; with rag_enabled true      *)
(* exactly one search is issued and the generation receives the template   *)
(* with the result of search_azure_ai in the slot context and the query in *)
(* the slot input.                                                         *)
(***************************************************************************)
C16_PayloadByMode ==
    [][pc = "generate" =>
          LET n == Len(calls)
              p == calls'[n + 1]
          IN /\ p.op = "invoke_prompt"
             /\ messages[Len(messages)] = UserMsg(prompt)
             /\ p.arg.input = prompt
             /\ IF rag_enabled
                THEN /\ Cardinality(Ops("POST_search")) = 1
                     /\ calls[n].op = "search_returns"
                     /\ p.arg.template = "qa_system_prompt"
                     /\ p.arg.context = calls[n].arg
                ELSE /\ Ops("POST_search") = {}
                     /\ p.arg.template = "none"
                     /\ p.arg.context = <<>>]_vars

C16_Witness ==
    /\ pc = "idle"
    /\ \E i \in Ops("invoke_prompt") :
           /\ calls[i].arg.template = "qa_system_prompt"
           /\ Len(calls[i].arg.context) >= 3
           /\ calls[i].arg.input \in Queries

(***************************************************************************)
(* C17: when the generation raises, the error is caught in the chat block: *)
(* no assistant message is appended, the history still ends with the user  *)
(* message of the query, and rag_enabled and last_uploaded_file are        *)
(* unchanged.                                                              *)
(***************************************************************************)
C17_GenerationFailureKeepsState ==
    [][(pc = "generate" /\ calls'[Len(calls')].op = "invoke_raises") =>
          /\ messages' = messages
          /\ messages'[Len(messages')] = UserMsg(prompt)
          /\ UNCHANGED <<rag_enabled, last_uploaded_file>>
          /\ pc' = "idle"]_vars

C17_Witness ==
    /\ pc = "idle"
    /\ Ops("invoke_raises") # {}
    /\ rag_enabled
    /\ messages[Len(messages)].role = "user"

(***************************************************************************)
(* C18: no remote call is retried: in one run the key listing, the delete, *)
(* the upload, the search and the generation are each issued at most once, *)
(* and after a failed request no further request of the same function      *)
(* follows.                                                                *)
(***************************************************************************)
FunctionOf(op) ==
    CASE op \in {"GET_keys", "POST_delete"} -> "clear_azure_search_index"
      [] op = "POST_upload" -> "index_documents_to_azure_search"
      [] op = "POST_search" -> "search_azure_ai"
      [] op = "invoke_prompt" -> "kernel.invoke_prompt"
      [] OTHER -> "none"

C18_NoRetry ==
    /\ \A op \in {"GET_keys", "POST_delete", "POST_upload", "POST_search",
                  "invoke_prompt"} : Cardinality(Ops(op)) <= 1
    /\ \A i \in 1..Len(calls) :
           FailedReply(i) =>
               \A j \in (i + 1)..Len(calls) :
                   FunctionOf(calls[j].op) # FunctionOf(calls[i-1].op)
    /\ \A i \in Ops("invoke_raises") : i = Len(calls)

C18_Witness ==
    /\ pc = "idle"
    /\ \E i \in Ops("POST_delete") : FailedReply(i + 1)
    /\ \E i \in Ops("POST_search") : FailedReply(i + 1)
    /\ Ops("invoke_raises") # {}

(***************************************************************************)
(* C19: with rag_enabled true a failed search does not end the run:        *)
(* search_azure_ai returns the failure message and the generation is       *)
(* invoked once, with that message in the slot context.                    *)
(***************************************************************************)
C19_FailedSearchStillGenerates ==
    \A i \in Ops("search_returns") :
        SearchFailed(i) =>
            /\ rag_enabled
            /\ calls[i].arg = SEARCH_FAILED
            /\ pc \in {"generate", "idle"}
            /\ pc = "generate" => i = Len(calls)
            /\ pc = "idle" =>
                   /\ Ops("invoke_prompt") = {i + 1}
                   /\ calls[i + 1].arg.template = "qa_system_prompt"
                   /\ calls[i + 1].arg.context = SEARCH_FAILED

C19_Witness ==
    /\ pc = "idle"
    /\ \E i \in Ops("search_returns") : SearchFailed(i)
    /\ Ops("invoke_returns") # {}
    /\ messages[Len(messages)] \in {AssistantMsg(r) : r \in Responses}

(***************************************************************************)
(* C20: load_and_split_pdf removes its temp file on every exit path: once  *)
(* the call has returned or raised, the file no longer exists.             *)
(***************************************************************************)
C20_TempFileRemoved ==
    (Ops("split_returns") # {} \/ Ops("split_raises") # {}) =>
        tmp_file = "none"

(***************************************************************************)
(* C21: one script run serves one ingestion or one query: no run both      *)
(* performs an ingestion attempt against the index and handles a query     *)
(* (search or generation).                                                 *)
(***************************************************************************)
IngestionAttempted == Ops("GET_keys") # {}

QueryHandled == Ops("POST_search") # {} \/ Ops("invoke_prompt") # {}

C21_IngestionOrQuery == ~(IngestionAttempted /\ QueryHandled)

(***************************************************************************)
(* C22: rag_enabled true over an empty index is reachable.  An attempt for *)
(* another document that ends in UPLOAD_FAILED after an earlier document   *)
(* was ingested leaves rag_enabled true and last_uploaded_file naming the  *)
(* earlier document; a query handled with rag_enabled true over an empty   *)
(* index issues the search and, when the search is answered, hands the     *)
(* empty context to the generation.                                        *)
(***************************************************************************)
C22_GroundedOverEmptyIndex ==
    /\ (stage = "UPLOAD_FAILED" /\ before.rag) =>
           /\ rag_enabled
           /\ last_uploaded_file = before.last
           /\ last_uploaded_file \in Names
           /\ last_uploaded_file # uploaded_file.name
    /\ (rag_enabled /\ index = {}) =>
           /\ pc = "generate" => Ops("search_returns") = {Len(calls)}
           /\ \A i \in Ops("invoke_prompt") :
                  /\ calls[i].arg.template = "qa_system_prompt"
                  /\ Ops("search_returns") = {i - 1}
                  /\ SearchAnswered(i - 1) => calls[i].arg.context = <<>>

C22_Witness ==
    /\ pc = "idle"
    /\ stage = "UPLOAD_FAILED"
    /\ before.rag
    /\ before.index = {}
    /\ index = {}
    /\ Len(ingested) > 0
    /\ last_uploaded_file \in Names
    /\ \E i \in Ops("invoke_prompt") :
           /\ SearchAnswered(i - 1)
           /\ calls[i].arg.context = <<>>

(***************************************************************************)
(* C24: when load_and_split_pdf raises, after clear returned True, the     *)
(* error is not caught: the run ends there, no upload request is issued,   *)
(* rag_enabled and last_uploaded_file keep the values they had before the  *)
(* attempt, and the index is as clear left it, empty.                      *)
(***************************************************************************)
C24_ExtractionErrorEndsAttempt ==
    /\ Ops("split_raises") # {} => stage = "EXTRACT_ERROR"
    /\ stage = "EXTRACT_ERROR" =>
           /\ pc = "idle"
           /\ Returned(calls, "clear_returns", TRUE)
           /\ Ops("split_raises") = {Len(calls)}
           /\ Ops("POST_upload") = {}
           /\ ~QueryHandled
           /\ rag_enabled = before.rag
           /\ last_uploaded_file = before.last
           /\ index = {}

(***************************************************************************)
(* C25: a document of zero chunks is not fatal: the attempt goes on to the *)
(* upload with the empty list and, when that upload returns True, reaches  *)
(* READY with rag_enabled true, last_uploaded_file the name of the         *)
(* document and an index of zero records.                                  *)
(***************************************************************************)
C25_ZeroChunksReachReady ==
    /\ \A i \in Ops("split_returns") :
           calls[i].arg = 0 =>
               /\ stage \in {"UPLOADING", "READY", "UPLOAD_FAILED"}
               /\ pc = "upload" \/ Ops("POST_upload") = {i + 1}
               /\ \A j \in Ops("POST_upload") : calls[j].arg = {}
               /\ Returned(calls, "upload_returns", TRUE) =>
                      /\ stage = "READY"
                      /\ rag_enabled
                      /\ last_uploaded_file = uploaded_file.name
                      /\ index = {}

(***************************************************************************)
(* C26: the step that reaches READY appends exactly one success notice,    *)
(* naming the new document, to the history, with rag_enabled and           *)
(* last_uploaded_file set; no other step appends a notice; the run stops   *)
(* there without handling a query and the run that follows starts without  *)
(* a chat input.                                                           *)
(***************************************************************************)
IsNotice(m) == m \in {Notice(n) : n \in Names}

C26_NoticeOnReady ==
    [][/\ ReachesReady =>
              /\ messages' = Append(messages, Notice(uploaded_file.name))
              /\ rag_enabled'
              /\ last_uploaded_file' = uploaded_file.name
              /\ pc' = "rerun"
              /\ prompt' = NoPrompt
              /\ \A i \in 1..Len(calls') :
                     calls'[i].op \notin {"POST_search", "invoke_prompt"}
       /\ (~ReachesReady /\ Len(messages') > Len(messages)) =>
              ~IsNotice(messages'[Len(messages')])
       /\ pc = "rerun" =>
              /\ pc' = "sidebar"
              /\ prompt' = NoPrompt
              /\ before'.prompt = NoPrompt
              /\ messages' = messages]_vars

C26_Witness ==
    /\ pc = "rerun"
    /\ stage = "READY"
    /\ before.prompt \in Queries
    /\ prompt = NoPrompt
    /\ rag_enabled
    /\ messages[Len(messages)] = Notice(last_uploaded_file)
    /\ Cardinality({i \in 1..Len(messages) : IsNotice(messages[i])}) = 1

(***************************************************************************)
(* C27: the history is append-only: every step leaves the earlier messages *)
(* in place and appends at most one.  The chat block appends the user      *)
(* message of the query before any search or generation call, and a        *)
(* generation that returns appends exactly one assistant message, holding  *)
(* the returned text, right after it.                                      *)
(***************************************************************************)
C27_HistoryAppendOnly ==
    [][/\ Len(messages') \in {Len(messages), Len(messages) + 1}
       /\ SubSeq(messages', 1, Len(messages)) = messages
       /\ (pc = "chat" /\ prompt # NoPrompt) =>
              /\ messages' = Append(messages, UserMsg(prompt))
              /\ ~QueryHandled
              /\ calls' = calls
       /\ pc \in {"search", "generate"} =>
              messages[Len(messages)] = UserMsg(prompt)
       /\ pc = "generate" =>
              LET last == calls'[Len(calls')]
              IN IF last.op = "invoke_returns"
                 THEN messages' = Append(messages, AssistantMsg(last.arg))
                 ELSE messages' = messages]_vars

C27_Witness ==
    /\ pc = "idle"
    /\ Len(messages) >= 4
    /\ Ops("POST_search") # {}
    /\ \E r \in Responses :
           /\ Returned(calls, "invoke_returns", r)
           /\ messages[Len(messages)] = AssistantMsg(r)
    /\ messages[Len(messages) - 1] = UserMsg(before.prompt)
    /\ messages[1] = Greeting

(***************************************************************************)
(* C28: a record of the reply that lacks the content field does not make   *)
(* search_azure_ai fail: it contributes the empty string at its position,  *)
(* and a reply of N records is returned as N entries with exactly N - 1    *)
(* separators, whichever records carry the field.                          *)
(***************************************************************************)
LacksContent(doc) == "content" \notin DOMAIN doc

C28_MissingContentJoined ==
    \A i \in Ops("search_azure_ai") :
        LET value == calls[i].arg.value
            ret == calls[i].arg.ret
            n == Len(value)
        IN calls[i].arg.ok =>
               /\ ret # SEARCH_FAILED
               /\ Len(ret) = IF n = 0 THEN 0 ELSE 2 * n - 1
               /\ \A k \in 1..n :
                      ret[2 * k - 1] = IF LacksContent(value[k]) THEN EMPTY
                                       ELSE value[k].content
               /\ Cardinality({k \in 1..Len(ret) : ret[k] = SEP}) =
                      IF n = 0 THEN 0 ELSE n - 1

C28_Witness ==
    \E i \in Ops("search_azure_ai") :
        LET value == calls[i].arg.value
        IN /\ calls[i].arg.ok
           /\ Len(value) = SearchTop
           /\ LacksContent(value[1])
           /\ ~LacksContent(value[2])
           /\ LacksContent(value[SearchTop])
           /\ calls[i].arg.ret[1] = EMPTY
           /\ context = calls[i].arg.ret

(***************************************************************************)
(* C29: the context handed to the generation holds the content of at most  *)
(* 5 records: search_azure_ai asks for the top 5, and what it returns for  *)
(* an answered search never holds more than 5 contents, each the content   *)
(* of a record of the index, however many records the index holds.         *)
(***************************************************************************)
ContentsIn(ctx) == {k \in 1..Len(ctx) : ctx[k] # SEP}

AttemptEnded ==
    stage \in {"READY", "CLEAR_FAILED", "UPLOAD_FAILED", "EXTRACT_ERROR"}

StageRank(st) ==
    CASE st = "IDLE" -> 0
      [] st = "CLEARING" -> 1
      [] st = "EXTRACTING" -> 2
      [] st = "UPLOADING" -> 3
      [] OTHER -> 4

RunStarts == pc \in {"idle", "rerun"}

C30_AttemptEnds ==
    /\ AttemptInProgress ~> AttemptEnded
    /\ [][/\ ~RunStarts => StageRank(stage') >= StageRank(stage)
          /\ (~RunStarts /\ AttemptEnded) => stage' = stage
          /\ (stage' = "CLEARING" /\ stage # "CLEARING") =>
                 (pc = "sidebar" /\ stage = "IDLE")
          /\ (AttemptInProgress /\ stage' # stage) =>
                 StageRank(stage') > StageRank(stage)]_vars

C30_Witness ==
    /\ pc = "idle"
    /\ stage = "UPLOAD_FAILED"
    /\ Ops("POST_delete") # {}
    /\ before.prompt \in Queries
    /\ Ops("invoke_returns") # {}

(***************************************************************************)
(* C31: rag_enabled is true exactly when last_uploaded_file is set.  The   *)
(* two are written in the same step, the one that reaches READY, and no    *)
(* step resets either: once rag_enabled is true it stays true, and once a  *)
(* name is recorded a name stays recorded.                                 *)
(***************************************************************************)
C31_RagIffLastSet ==
    [][/\ rag_enabled <=> (last_uploaded_file # NoName)
       /\ rag_enabled' <=> (last_uploaded_file' # NoName)
       /\ rag_enabled => rag_enabled'
       /\ last_uploaded_file # NoName => last_uploaded_file' # NoName
       /\ (rag_enabled' # rag_enabled
             \/ last_uploaded_file' # last_uploaded_file) =>
              /\ ReachesReady
              /\ rag_enabled'
              /\ last_uploaded_file' = uploaded_file.name]_vars

C31_Witness ==
    /\ pc = "idle"
    /\ stage = "CLEAR_FAILED"
    /\ rag_enabled
    /\ last_uploaded_file \in Names
    /\ uploaded_file.name # last_uploaded_file
    /\ Ops("invoke_raises") # {}

(***************************************************************************)
(* C32: a failed attempt records nothing about its document: after         *)
(* CLEAR_FAILED, UPLOAD_FAILED or the extraction error the session fields  *)
(* are as before the attempt and the same file still calls for an          *)
(* ingestion; a run starts an attempt exactly when its file's name is not  *)
(* the one last_uploaded_file held, so the document ingested last starts   *)
(* none, whatever a failed attempt has done to the index since.            *)
(***************************************************************************)
AttemptFailed == stage \in {"CLEAR_FAILED", "UPLOAD_FAILED", "EXTRACT_ERROR"}

C32_FailedAttemptForgotten ==
    /\ AttemptFailed =>
           /\ rag_enabled = before.rag
           /\ last_uploaded_file = before.last
           /\ NeedsIngestion(uploaded_file, last_uploaded_file)
    /\ (pc # "sidebar" /\ uploaded_file # NoFile) =>
           (stage # "IDLE" <=> uploaded_file.name # before.last)
    /\ (pc # "sidebar" /\ SameNameRun) =>
           /\ ~IngestionAttempted
           /\ index = before.index

C32_Witness ==
    /\ pc = "chat"
    /\ stage = "IDLE"
    /\ SameNameRun
    /\ rag_enabled
    /\ Len(ingested) > 0
    /\ cleared
    /\ index = {}

====
